---- MODULE Spec2Model ----
(***************************************************************************)
(* The project state of App (files, active file, undo/redo history) and    *)
(* the asynchronous code generation of Tools, as a state machine.          *)
(*                                                                         *)
(* A handler of a React function component reads the state of the render   *)
(* that created it.  A handler run from a user event reads the current     *)
(* state.  The continuation of handleAction after its await still holds    *)
(* the onCodeUpdate of the render in which the request was started, and    *)
(* with it that render's files, activeFileId, history and historyIndex:    *)
(* a request in flight carries these captured values.                      *)
(*                                                                         *)
(* historyIndex is 0-based as in the source; TLA+ sequences are 1-based,   *)
(* so the source's history[i] is At(history, i).                           *)
(***************************************************************************)
EXTENDS Integers, Sequences, FiniteSets, Bags, TLC

VARIABLES
    files,          \* App: useState files
    activeFileId,   \* App: useState activeFileId
    explanation,    \* App: useState explanation
    generatedImage, \* App: useState generatedImage
    history,        \* App: useState history
    historyIndex,   \* App: useState historyIndex
    loading,        \* Tools: useState loading
    requests,       \* bag of handleAction calls awaiting their result
    mode,           \* App: useState mode
    assetOutputMode,\* Tools: useState assetOutputMode
    chatHistory,    \* App: useState chatHistory
    chatLoading,    \* App: useState chatLoading
    chatRequests    \* number of chatWithGemini calls awaiting their result

\* the state of the left panel apart from the generation itself
panelVars == <<mode, assetOutputMode>>

\* the state of the chat
chatVars == <<chatHistory, chatLoading, chatRequests>>

vars == <<files, activeFileId, explanation, generatedImage, history,
          historyIndex, loading, requests, mode, assetOutputMode,
          chatHistory, chatLoading, chatRequests>>

-----------------------------------------------------------------------------
(* Bounds of the model *)

MaxHist == 3        \* longest history log explored
MaxFiles == 2       \* most files in a snapshot explored
MaxDeepHist == 6    \* longest history log explored without generation
MaxEditHist == 4    \* longest history log explored for single edits
MaxPending == 1     \* most handleAction calls in flight, all modes explored
MaxCards == 2       \* most handleAction calls in flight, code generation only
MaxToolsHist == 2   \* longest history log explored with all modes of Tools
MaxChat == 4        \* longest chat transcript explored
MaxLoadChat == 3    \* longest chat transcript explored next to the Tools panel

-----------------------------------------------------------------------------
(* Values *)

Null == "<null>"
Undefined == "<undefined>"

INITIAL_CODE == "extends CharacterBody2D"

INITIAL_FILES ==
    << [id |-> "1", name |-> "player.gd", language |-> "gdscript",
        content |-> INITIAL_CODE],
       [id |-> "2", name |-> "game_manager.gd", language |-> "gdscript",
        content |-> "extends Node\n\nvar score: int = 0\n"] >>

\* Values Math.random().toString(36).substr(2, 9) may return; nothing keeps
\* two calls from returning the same one.
SimpleIds == {"k3x9q", "p07zm"}

\* Texts typed into the "new file" input of FileExplorer.
TypedNames == {"enemy.gd", " save.json ", "  "}

\* Those of them typed while generations are explored as well.
FewTypedNames == {" save.json ", "  "}

\* Texts the editor hands to setCode.
TypedCode == {"x"}

\* What generateGodotCode returns: the parsed JSON of the response text.
\* An empty response text is parsed as "{}", an object without code or
\* explanation; the text "null" parses to null.
GeneratedResults ==
    { [type |-> "object", code |-> "g", explanation |-> "e"],
      [type |-> "object", code |-> Undefined, explanation |-> Undefined],
      [type |-> "null", code |-> Undefined, explanation |-> Undefined] }

\* if (result): an object is truthy, null is not
Truthy(result) == result.type # "null"

ErrorText == "Error: failed"

\* the ToolMode values other than CHAT, in which App renders Tools
ToolModes == {"CODE_GEN", "ASSET_GEN", "PHYSICS", "LOGIC", "DEBUGGER"}

Greeting == "Hello. I am your Godot Architect."

\* Texts in the prompt field when the main button of Tools is clicked.
TypedPrompts == {"jump", " "}

\* The customPrompt an ActionCard or Chip hands to handleAction.
CardPrompt == "Optimize the existing code for performance and readability."

\* What generateVisualAsset returns.
ImageUrls == {"data:image/png;base64,AAAA"}

\* What analyzeError returns: response.text, which may be empty.
AnalysisResults == {"call it deferred", ""}

\* Texts in the chat input when the form is submitted.
TypedChat == {"hi", " "}

\* What chatWithGemini returns: response.text, which may be empty.
ChatReplies == {"hello", ""}

-----------------------------------------------------------------------------
(* Pure helpers *)

Range(s) == { s[i] : i \in DOMAIN s }

At(h, i) == h[i + 1]

Ids(fs) == { fs[i].id : i \in DOMAIN fs }

EndsWith(s, suffix) ==
    /\ Len(s) >= Len(suffix)
    /\ SubSeq(s, Len(s) - Len(suffix) + 1, Len(s)) = suffix

RECURSIVE TrimStart(_)
TrimStart(s) ==
    IF Len(s) > 0 /\ SubSeq(s, 1, 1) = " "
    THEN TrimStart(SubSeq(s, 2, Len(s)))
    ELSE s

RECURSIVE TrimEnd(_)
TrimEnd(s) ==
    IF Len(s) > 0 /\ SubSeq(s, Len(s), Len(s)) = " "
    THEN TrimEnd(SubSeq(s, 1, Len(s) - 1))
    ELSE s

Trim(s) == TrimEnd(TrimStart(s))

Filter(fs, id) == SelectSeq(fs, LAMBDA f : f.id # id)

\* files.find(f => f.id === activeFileId) || files[0]
ActiveFile(fs, aid) ==
    IF \E i \in DOMAIN fs : fs[i].id = aid
    THEN fs[CHOOSE i \in DOMAIN fs :
                /\ fs[i].id = aid
                /\ \A j \in DOMAIN fs : fs[j].id = aid => i <= j]
    ELSE IF fs # <<>> THEN fs[1] ELSE Undefined

\* Tools: projectFiles.find(f => f.id === activeFileId), with no fallback
CurrentFile(fs, aid) ==
    IF \E i \in DOMAIN fs : fs[i].id = aid
    THEN fs[CHOOSE i \in DOMAIN fs :
                /\ fs[i].id = aid
                /\ \A j \in DOMAIN fs : fs[j].id = aid => i <= j]
    ELSE Undefined

\* App renders activeFile.content: with no file at all the render throws and
\* React unmounts the application, after which no handler runs.
Mounted == files # <<>>

-----------------------------------------------------------------------------
(* The state after construction *)

Init ==
    /\ files = INITIAL_FILES
    /\ activeFileId = "1"
    /\ explanation = ""
    /\ generatedImage = Null
    /\ history = <<INITIAL_FILES>>
    /\ historyIndex = 0
    /\ loading = FALSE
    /\ requests = EmptyBag
    /\ mode = "CODE_GEN"
    /\ assetOutputMode = "script"
    /\ chatHistory = <<[role |-> "model", content |-> Greeting]>>
    /\ chatLoading = FALSE
    /\ chatRequests = 0

-----------------------------------------------------------------------------
(* History *)

\* pushToHistory with the cursor set to newHistory.length
PushToHistory_IndexIsLength(hist, idx, newFiles) ==
    LET newHistory == Append(SubSeq(hist, 1, idx + 1), newFiles)
    IN  /\ history' = newHistory
        /\ historyIndex' = Len(newHistory)
        /\ files' = newFiles

\* pushToHistory without the slice: the redo entries stay in the log
PushToHistory_NoSlice(hist, idx, newFiles) ==
    /\ history' = Append(hist, newFiles)
    /\ historyIndex' = idx + 1
    /\ files' = newFiles

\* pushToHistory that returns when newFiles equals the current entry
PushToHistory_SkipsEqual(hist, idx, newFiles) ==
    IF newFiles = At(hist, idx)
    THEN UNCHANGED <<history, historyIndex, files>>
    ELSE LET newHistory == Append(SubSeq(hist, 1, idx + 1), newFiles)
         IN  /\ history' = newHistory
             /\ historyIndex' = Len(newHistory) - 1
             /\ files' = newFiles

\* pushToHistory with history.slice(1, historyIndex + 1)
PushToHistory_DropsOldest(hist, idx, newFiles) ==
    LET newHistory == Append(SubSeq(hist, 2, idx + 1), newFiles)
    IN  /\ history' = newHistory
        /\ historyIndex' = Len(newHistory) - 1
        /\ files' = newFiles

\* pushToHistory run in a render whose history and historyIndex are hist, idx
PushToHistory(hist, idx, newFiles) ==
    LET newHistory == Append(SubSeq(hist, 1, idx + 1), newFiles)
    IN  /\ history' = newHistory
        /\ historyIndex' = Len(newHistory) - 1
        /\ files' = newFiles

\* undo with the guard historyIndex >= 0
Undo_GuardAllowsZero ==
    /\ Mounted
    /\ historyIndex' = historyIndex - 1
    /\ files' = IF historyIndex > 0 THEN At(history, historyIndex - 1)
                ELSE files
    /\ UNCHANGED <<activeFileId, explanation, generatedImage, history,
                   loading, requests>>
    /\ UNCHANGED <<panelVars, chatVars>>

Undo ==
    /\ Mounted
    /\ IF historyIndex > 0
       THEN /\ historyIndex' = historyIndex - 1
            /\ files' = At(history, historyIndex - 1)
       ELSE UNCHANGED <<historyIndex, files>>
    /\ UNCHANGED <<activeFileId, explanation, generatedImage, history,
                   loading, requests>>
    /\ UNCHANGED <<panelVars, chatVars>>

\* redo with setFiles(history[historyIndex])
Redo_ShowsOldEntry ==
    /\ Mounted
    /\ IF historyIndex < Len(history) - 1
       THEN /\ historyIndex' = historyIndex + 1
            /\ files' = At(history, historyIndex)
       ELSE UNCHANGED <<historyIndex, files>>
    /\ UNCHANGED <<activeFileId, explanation, generatedImage, history,
                   loading, requests>>
    /\ UNCHANGED <<panelVars, chatVars>>

Redo ==
    /\ Mounted
    /\ IF historyIndex < Len(history) - 1
       THEN /\ historyIndex' = historyIndex + 1
            /\ files' = At(history, historyIndex + 1)
       ELSE UNCHANGED <<historyIndex, files>>
    /\ UNCHANGED <<activeFileId, explanation, generatedImage, history,
                   loading, requests>>
    /\ UNCHANGED <<panelVars, chatVars>>

-----------------------------------------------------------------------------
(* Files *)

\* files.map(f => f.id === activeFileId ? { ...f, content: newContent } : f)
UpdatedFiles(fs, aid, newContent) ==
    [ i \in DOMAIN fs |->
        IF fs[i].id = aid THEN [fs[i] EXCEPT !.content = newContent]
        ELSE fs[i] ]

\* updateActiveFileContent with setFiles(updatedFiles) in place of the push
UpdateActiveFileContent_NoPush(fs, aid, hist, idx, newContent) ==
    /\ files' = UpdatedFiles(fs, aid, newContent)
    /\ UNCHANGED <<history, historyIndex>>

\* updateActiveFileContent run in a render whose state is fs, aid, hist, idx
UpdateActiveFileContent(fs, aid, hist, idx, newContent) ==
    PushToHistory(hist, idx, UpdatedFiles(fs, aid, newContent))

\* CodeEditor calls setCode with the edited text
SetCode(newContent) ==
    /\ Mounted
    /\ UpdateActiveFileContent(files, activeFileId, history, historyIndex,
                               newContent)
    /\ UNCHANGED <<activeFileId, explanation, generatedImage, loading,
                   requests>>
    /\ UNCHANGED <<panelVars, chatVars>>

NewFile(id, name) ==
    [id |-> id, name |-> name,
     language |-> IF EndsWith(name, ".json") THEN "json" ELSE "gdscript",
     content |-> IF EndsWith(name, ".json") THEN "{}" ELSE "extends Node\n"]

HandleFileCreate(id, name) ==
    /\ PushToHistory(history, historyIndex, Append(files, NewFile(id, name)))
    /\ activeFileId' = id

\* handleCreateSubmit with onFileCreate(newFileName)
HandleCreateSubmit_Untrimmed(newFileName) ==
    /\ Mounted
    /\ IF Trim(newFileName) # ""
       THEN \E id \in SimpleIds : HandleFileCreate(id, newFileName)
       ELSE UNCHANGED <<files, activeFileId, history, historyIndex>>
    /\ UNCHANGED <<explanation, generatedImage, loading, requests>>
    /\ UNCHANGED <<panelVars, chatVars>>

\* FileExplorer's form: the trimmed name is handed on unless it is empty
HandleCreateSubmit(newFileName) ==
    /\ Mounted
    /\ IF Trim(newFileName) # ""
       THEN \E id \in SimpleIds : HandleFileCreate(id, Trim(newFileName))
       ELSE UNCHANGED <<files, activeFileId, history, historyIndex>>
    /\ UNCHANGED <<explanation, generatedImage, loading, requests>>
    /\ UNCHANGED <<panelVars, chatVars>>

\* handleFileDelete with the guard files.length < 1
HandleFileDelete_GuardBelowOne(id) ==
    /\ Mounted
    /\ IF Len(files) < 1
       THEN UNCHANGED <<files, activeFileId, history, historyIndex>>
       ELSE /\ PushToHistory(history, historyIndex, Filter(files, id))
            /\ activeFileId' =
                 IF activeFileId = id /\ Filter(files, id) # <<>>
                 THEN Filter(files, id)[1].id
                 ELSE activeFileId
    /\ UNCHANGED <<explanation, generatedImage, loading, requests>>
    /\ UNCHANGED <<panelVars, chatVars>>

\* With no file left, updatedFiles[0].id throws after pushToHistory has
\* queued its updates: they are applied and activeFileId keeps its value.
HandleFileDelete(id) ==
    /\ Mounted
    /\ IF Len(files) <= 1
       THEN UNCHANGED <<files, activeFileId, history, historyIndex>>
       ELSE /\ PushToHistory(history, historyIndex, Filter(files, id))
            /\ activeFileId' =
                 IF activeFileId = id /\ Filter(files, id) # <<>>
                 THEN Filter(files, id)[1].id
                 ELSE activeFileId
    /\ UNCHANGED <<explanation, generatedImage, loading, requests>>
    /\ UNCHANGED <<panelVars, chatVars>>

\* onFileSelect with setExplanation('') added
OnFileSelect_ClearsExplanation(id) ==
    /\ Mounted
    /\ activeFileId' = id
    /\ generatedImage' = Null
    /\ explanation' = ""
    /\ UNCHANGED <<files, history, historyIndex, loading, requests>>
    /\ UNCHANGED <<panelVars, chatVars>>

OnFileSelect(id) ==
    /\ Mounted
    /\ activeFileId' = id
    /\ generatedImage' = Null
    /\ UNCHANGED <<files, explanation, history, historyIndex, loading,
                   requests>>
    /\ UNCHANGED <<panelVars, chatVars>>

-----------------------------------------------------------------------------
(* Code generation: handleAction of Tools *)

\* What the continuation of handleAction holds on to across its await: the
\* onCodeUpdate of the current render, and through it this render's files and
\* activeFileId (updateActiveFileContent) and history and historyIndex
\* (pushToHistory).  Of history only history.slice(0, historyIndex + 1) is
\* ever read, so that slice is what the request carries.
Closure ==
    [files |-> files, activeFileId |-> activeFileId,
     history |-> SubSeq(history, 1, historyIndex + 1),
     historyIndex |-> historyIndex]

\* the branch handleAction takes in mode m with output mode o
Kind(m, o) ==
    IF m = "ASSET_GEN" /\ o = "image" THEN "image"
    ELSE IF m = "DEBUGGER" THEN "debug"
    ELSE "code"

\* A call of handleAction at its await, with what its continuation reads.
\* live: the Tools instance that made the call is still mounted, so that its
\* setLoading has an effect.  The code branch calls onCodeUpdate, the image
\* branch puts its prompt into the explanation.
Request(finalPrompt) ==
    IF Kind(mode, assetOutputMode) = "code"
    THEN [kind |-> "code", live |-> TRUE,
          files |-> Closure.files, activeFileId |-> Closure.activeFileId,
          history |-> Closure.history, historyIndex |-> Closure.historyIndex]
    ELSE IF Kind(mode, assetOutputMode) = "image"
    THEN [kind |-> "image", live |-> TRUE, prompt |-> finalPrompt]
    ELSE [kind |-> "debug", live |-> TRUE]

\* handleAction up to its await; referenceInput and selectedImage are empty
HandleAction(finalPrompt) ==
    /\ Mounted
    /\ mode \in ToolModes
    /\ IF Trim(finalPrompt) = "" /\ mode # "DEBUGGER"
       THEN UNCHANGED <<loading, explanation, requests>>
       ELSE /\ loading' = TRUE
            /\ explanation' = ""
            /\ requests' = requests (+) SetToBag({Request(finalPrompt)})
    /\ UNCHANGED <<files, activeFileId, generatedImage, history, historyIndex>>
    /\ UNCHANGED <<panelVars, chatVars>>

\* disabled={loading || ...} of the main button of Tools
CanGenerate == ~loading

\* the main button: onClick={() => handleAction()}
OnGenerateClick(prompt) ==
    /\ CanGenerate
    /\ prompt # "" \/ mode = "DEBUGGER"
    /\ HandleAction(prompt)

\* an ActionCard or a Chip: onClick={() => handleAction("...")}; they are
\* rendered in every mode but DEBUGGER and are never disabled
OnCardClick ==
    /\ mode # "DEBUGGER"
    /\ HandleAction(CardPrompt)

\* generateGodotCode returned result: if (result) { onCodeUpdate(result.code);
\* onExplanation(result.explanation) }, then finally setLoading(false)
GenerationReturns(req, result) ==
    /\ Mounted
    /\ BagIn(req, requests)
    /\ req.kind = "code"
    /\ requests' = requests (-) SetToBag({req})
    /\ loading' = IF req.live THEN FALSE ELSE loading
    /\ IF Truthy(result)
       THEN /\ UpdateActiveFileContent(req.files, req.activeFileId,
                                       req.history, req.historyIndex,
                                       result.code)
            /\ generatedImage' = Null
            /\ explanation' = result.explanation
       ELSE UNCHANGED <<files, history, historyIndex, generatedImage,
                        explanation>>
    /\ UNCHANGED activeFileId
    /\ UNCHANGED <<panelVars, chatVars>>

\* the catch of handleAction with onCodeUpdate(message) added
GenerationThrows_WritesError(req) ==
    /\ Mounted
    /\ BagIn(req, requests)
    /\ requests' = requests (-) SetToBag({req})
    /\ loading' = IF req.live THEN FALSE ELSE loading
    /\ explanation' = ErrorText
    /\ PushToHistory(history, historyIndex,
                     UpdatedFiles(files, activeFileId, ErrorText))
    /\ UNCHANGED <<activeFileId, generatedImage>>
    /\ UNCHANGED <<panelVars, chatVars>>

\* the catch of handleAction with no finally after it
GenerationThrows_NoFinally(req) ==
    /\ Mounted
    /\ BagIn(req, requests)
    /\ requests' = requests (-) SetToBag({req})
    /\ explanation' = ErrorText
    /\ UNCHANGED <<files, activeFileId, generatedImage, history, historyIndex,
                   loading>>
    /\ UNCHANGED <<panelVars, chatVars>>

\* generateGodotCode, generateVisualAsset or analyzeError threw: catch sets
\* the explanation, finally clears loading
GenerationThrows(req) ==
    /\ Mounted
    /\ BagIn(req, requests)
    /\ requests' = requests (-) SetToBag({req})
    /\ loading' = IF req.live THEN FALSE ELSE loading
    /\ explanation' = ErrorText
    /\ UNCHANGED <<files, activeFileId, generatedImage, history, historyIndex>>
    /\ UNCHANGED <<panelVars, chatVars>>

\* generateVisualAsset returned imageUrl
ImageReturns(req, imageUrl) ==
    /\ Mounted
    /\ BagIn(req, requests)
    /\ req.kind = "image"
    /\ requests' = requests (-) SetToBag({req})
    /\ loading' = IF req.live THEN FALSE ELSE loading
    /\ generatedImage' = imageUrl
    /\ explanation' = "Generated visual asset based on: " \o req.prompt
    /\ UNCHANGED <<files, activeFileId, history, historyIndex>>
    /\ UNCHANGED <<panelVars, chatVars>>

\* the debugger branch with onCodeUpdate(analysis) added
AnalysisReturns_AppliesFix(req, analysis) ==
    /\ Mounted
    /\ BagIn(req, requests)
    /\ req.kind = "debug"
    /\ requests' = requests (-) SetToBag({req})
    /\ loading' = IF req.live THEN FALSE ELSE loading
    /\ explanation' = IF analysis # "" THEN analysis
                      ELSE "No analysis returned."
    /\ PushToHistory(history, historyIndex,
                     UpdatedFiles(files, activeFileId, analysis))
    /\ UNCHANGED <<activeFileId, generatedImage>>
    /\ UNCHANGED <<panelVars, chatVars>>

\* analyzeError returned analysis
AnalysisReturns(req, analysis) ==
    /\ Mounted
    /\ BagIn(req, requests)
    /\ req.kind = "debug"
    /\ requests' = requests (-) SetToBag({req})
    /\ loading' = IF req.live THEN FALSE ELSE loading
    /\ explanation' = IF analysis # "" THEN analysis
                      ELSE "No analysis returned."
    /\ UNCHANGED <<files, activeFileId, generatedImage, history, historyIndex>>
    /\ UNCHANGED <<panelVars, chatVars>>

-----------------------------------------------------------------------------
(* The left panel: Sidebar, and the output switch of Tools *)

\* Sidebar: setMode(item.mode).  App renders Tools unless mode is CHAT: on
\* entering CHAT the Tools instance is unmounted, its state is lost and the
\* setLoading of its calls in flight no longer has an effect; the instance
\* mounted on leaving CHAT starts from its initial state.
SetMode(m) ==
    /\ Mounted
    /\ mode' = m
    /\ IF m = "CHAT" /\ mode # "CHAT"
       THEN /\ loading' = FALSE
            /\ assetOutputMode' = "script"
            /\ requests' = BagOfAll(LAMBDA r : [r EXCEPT !.live = FALSE],
                                    requests)
       ELSE UNCHANGED <<loading, assetOutputMode, requests>>
    /\ UNCHANGED <<files, activeFileId, explanation, generatedImage, history,
                   historyIndex, chatVars>>

\* the Procedural Script / Visual Asset switch, shown in ASSET_GEN mode
SetAssetOutputMode(o) ==
    /\ Mounted
    /\ mode = "ASSET_GEN"
    /\ assetOutputMode' = o
    /\ UNCHANGED <<files, activeFileId, explanation, generatedImage, history,
                   historyIndex, loading, requests, mode, chatVars>>

-----------------------------------------------------------------------------
(* Chat: handleChatSubmit of App *)

\* handleChatSubmit up to await chatWithGemini(...)
HandleChatSubmit_NoLoadingGuard(chatInput) ==
    /\ Mounted
    /\ mode = "CHAT"
    /\ IF Trim(chatInput) = ""
       THEN UNCHANGED chatVars
       ELSE /\ chatHistory' = Append(chatHistory,
                                     [role |-> "user", content |-> chatInput])
            /\ chatLoading' = TRUE
            /\ chatRequests' = chatRequests + 1
    /\ UNCHANGED <<files, activeFileId, explanation, generatedImage, history,
                   historyIndex, loading, requests, panelVars>>

\* handleChatSubmit: returns on a blank input or while chatLoading
HandleChatSubmit(chatInput) ==
    /\ Mounted
    /\ mode = "CHAT"
    /\ IF Trim(chatInput) = "" \/ chatLoading
       THEN UNCHANGED chatVars
       ELSE /\ chatHistory' = Append(chatHistory,
                                     [role |-> "user", content |-> chatInput])
            /\ chatLoading' = TRUE
            /\ chatRequests' = chatRequests + 1
    /\ UNCHANGED <<files, activeFileId, explanation, generatedImage, history,
                   historyIndex, loading, requests, panelVars>>

\* the reply handling with the reply written into the active file as well
ChatReturns_WritesReply(responseText) ==
    /\ Mounted
    /\ chatRequests > 0
    /\ chatRequests' = chatRequests - 1
    /\ chatHistory' = Append(chatHistory,
            [role |-> "model",
             content |-> IF responseText # "" THEN responseText
                         ELSE "I couldn't generate a response."])
    /\ chatLoading' = FALSE
    /\ PushToHistory(history, historyIndex,
                     UpdatedFiles(files, activeFileId, responseText))
    /\ UNCHANGED <<activeFileId, explanation, generatedImage, loading,
                   requests, panelVars>>

\* chatWithGemini returned responseText
ChatReturns(responseText) ==
    /\ Mounted
    /\ chatRequests > 0
    /\ chatRequests' = chatRequests - 1
    /\ chatHistory' = Append(chatHistory,
            [role |-> "model",
             content |-> IF responseText # "" THEN responseText
                         ELSE "I couldn't generate a response."])
    /\ chatLoading' = FALSE
    /\ UNCHANGED <<files, activeFileId, explanation, generatedImage, history,
                   historyIndex, loading, requests, panelVars>>

\* chatWithGemini threw
ChatThrows ==
    /\ Mounted
    /\ chatRequests > 0
    /\ chatRequests' = chatRequests - 1
    /\ chatHistory' = Append(chatHistory,
            [role |-> "model", content |-> "Error communicating with Gemini."])
    /\ chatLoading' = FALSE
    /\ UNCHANGED <<files, activeFileId, explanation, generatedImage, history,
                   historyIndex, loading, requests, panelVars>>

-----------------------------------------------------------------------------

(* The handlers above are unbounded; each next-state relation keeps its    *)
(* exploration finite.                                                     *)

CanPush(maxHist) == Len(history) < maxHist

CanCreate(newFileName, maxHist) ==
    Trim(newFileName) # "" => CanPush(maxHist) /\ Len(files) < MaxFiles

CanDelete(maxHist) == Len(files) > 1 => CanPush(maxHist)

CanApply(req, result) ==
    (req.kind = "code" /\ Truthy(result)) => req.historyIndex + 2 <= MaxHist

\* The whole program: the log grows to MaxHist entries and a snapshot to
\* MaxFiles files; handleAction is entered from the main button.
Next ==
    \/ Undo
    \/ Redo
    \/ \E c \in TypedCode : CanPush(MaxHist) /\ SetCode(c)
    \/ \E n \in FewTypedNames : CanCreate(n, MaxHist) /\ HandleCreateSubmit(n)
    \/ \E id \in Ids(files) : CanDelete(MaxHist) /\ HandleFileDelete(id)
    \/ \E id \in Ids(files) : OnFileSelect(id)
    \/ \E p \in TypedPrompts : OnGenerateClick(p)
    \/ \E req \in BagToSet(requests), r \in GeneratedResults :
          CanApply(req, r) /\ GenerationReturns(req, r)
    \/ \E req \in BagToSet(requests) : GenerationThrows(req)

Spec == Init /\ [][Next]_vars

\* The file explorer, the editor and the history buttons alone, with no
\* generation: the log grows to MaxDeepHist entries.
NextProject ==
    \/ Undo
    \/ Redo
    \/ \E c \in TypedCode : CanPush(MaxDeepHist) /\ SetCode(c)
    \/ \E n \in TypedNames :
          CanCreate(n, MaxDeepHist) /\ HandleCreateSubmit(n)
    \/ \E id \in Ids(files) : CanDelete(MaxDeepHist) /\ HandleFileDelete(id)
    \/ \E id \in Ids(files) : OnFileSelect(id)

SpecProject == Init /\ [][NextProject]_vars

\* The same handlers with a log of at most MaxEditHist entries.
NextEdits ==
    \/ Undo
    \/ Redo
    \/ \E c \in TypedCode : CanPush(MaxEditHist) /\ SetCode(c)
    \/ \E n \in TypedNames :
          CanCreate(n, MaxEditHist) /\ HandleCreateSubmit(n)
    \/ \E id \in Ids(files) : CanDelete(MaxEditHist) /\ HandleFileDelete(id)
    \/ \E id \in Ids(files) : OnFileSelect(id)

SpecEdits == Init /\ [][NextEdits]_vars

\* the modes the Sidebar offers; PHYSICS and LOGIC take the branches of
\* handleAction that CODE_GEN takes
SidebarModes == {"CODE_GEN", "ASSET_GEN", "DEBUGGER", "CHAT"}

CanStart == BagCardinality(requests) < MaxPending

CanApplyTools(req, result) ==
    (req.kind = "code" /\ Truthy(result)) =>
        req.historyIndex + 2 <= MaxToolsHist

\* The Tools panel in its modes, entered from the main button and from the
\* cards and chips, with the file list: at most MaxPending calls are in
\* flight and the log grows to MaxToolsHist entries.
NextTools ==
    \/ \E m \in SidebarModes : SetMode(m)
    \/ \E o \in {"script", "image"} : SetAssetOutputMode(o)
    \/ \E p \in TypedPrompts : CanStart /\ OnGenerateClick(p)
    \/ CanStart /\ OnCardClick
    \/ \E req \in BagToSet(requests), r \in GeneratedResults :
          CanApplyTools(req, r) /\ GenerationReturns(req, r)
    \/ \E req \in BagToSet(requests) : GenerationThrows(req)
    \/ \E req \in BagToSet(requests), u \in ImageUrls : ImageReturns(req, u)
    \/ \E req \in BagToSet(requests), a \in AnalysisResults :
          AnalysisReturns(req, a)
    \/ \E id \in Ids(files) : OnFileSelect(id)

SpecTools == Init /\ [][NextTools]_vars

\* Code generation entered from the main button and from the cards and
\* chips, with the editor and the file list: at most MaxCards calls are in
\* flight.
NextCards ==
    \/ \E p \in TypedPrompts : OnGenerateClick(p)
    \/ BagCardinality(requests) < MaxCards /\ OnCardClick
    \/ \E req \in BagToSet(requests), r \in GeneratedResults :
          CanApply(req, r) /\ GenerationReturns(req, r)
    \/ \E req \in BagToSet(requests) : GenerationThrows(req)
    \/ \E c \in TypedCode : CanPush(MaxHist) /\ SetCode(c)
    \/ \E id \in Ids(files) : OnFileSelect(id)

SpecCards == Init /\ [][NextCards]_vars

\* The chat, with the editor, the file list and the history buttons: the
\* transcript grows to MaxChat messages.
NextChat ==
    \/ \E m \in {"CODE_GEN", "CHAT"} : SetMode(m)
    \/ \E t \in TypedChat :
          (Trim(t) # "" /\ ~chatLoading => Len(chatHistory) + 2 <= MaxChat)
          /\ HandleChatSubmit(t)
    \/ \E t \in ChatReplies : ChatReturns(t)
    \/ ChatThrows
    \/ \E c \in TypedCode : CanPush(MaxHist) /\ SetCode(c)
    \/ \E id \in Ids(files) : OnFileSelect(id)
    \/ Undo
    \/ Redo

SpecChat == Init /\ [][NextChat]_vars

\* a call of handleAction returns or throws
ToolsCompletion ==
    \/ \E req \in BagToSet(requests), r \in GeneratedResults :
          CanApplyTools(req, r) /\ GenerationReturns(req, r)
    \/ \E req \in BagToSet(requests) : GenerationThrows(req)
    \/ \E req \in BagToSet(requests), u \in ImageUrls : ImageReturns(req, u)
    \/ \E req \in BagToSet(requests), a \in AnalysisResults :
          AnalysisReturns(req, a)

\* the call of handleChatSubmit returns or throws
ChatCompletion ==
    \/ \E t \in ChatReplies : ChatReturns(t)
    \/ ChatThrows

\* The Tools panel and the chat together: at most MaxPending calls of
\* handleAction are in flight, the log grows to MaxToolsHist entries and the
\* transcript to MaxLoadChat messages.
NextLoading ==
    \/ \E m \in SidebarModes : SetMode(m)
    \/ \E o \in {"script", "image"} : SetAssetOutputMode(o)
    \/ \E p \in TypedPrompts : CanStart /\ OnGenerateClick(p)
    \/ CanStart /\ OnCardClick
    \/ \E t \in TypedChat :
          (Trim(t) # "" /\ ~chatLoading =>
               Len(chatHistory) + 2 <= MaxLoadChat)
          /\ HandleChatSubmit(t)
    \/ ToolsCompletion
    \/ ChatCompletion

\* Every call made returns or throws: the awaited promise settles.
SpecLoading ==
    /\ Init
    /\ [][NextLoading]_vars
    /\ WF_vars(ToolsCompletion)
    /\ WF_vars(ChatCompletion)

-----------------------------------------------------------------------------
(* Steps, named by the handler that takes them *)

\* a step of the editor's setCode
SetCodeStep == \E c \in TypedCode : SetCode(c)

\* a step in which handleFileCreate runs
CreateStep ==
    \E n \in TypedNames : Trim(n) # "" /\ HandleCreateSubmit(n)

\* a step in which handleFileDelete gets past its guard
DeleteStep == \E id \in Ids(files) : Len(files) > 1 /\ HandleFileDelete(id)

\* a step in which a generation result is handed to onCodeUpdate
ApplyStep ==
    \E req \in BagToSet(requests), r \in GeneratedResults :
        Truthy(r) /\ GenerationReturns(req, r)

\* a step in which pushToHistory runs
PushStep == SetCodeStep \/ CreateStep \/ DeleteStep \/ ApplyStep

Snapshots == Range(history) \cup {files}

HasContent(fs, c) == \E i \in DOMAIN fs : fs[i].content = c

-----------------------------------------------------------------------------
(* C1..C10 *)

\* C1: after any sequence of create, delete, content change, generation
\* result, undo and redo the history log is non-empty and
\* 0 <= historyIndex <= Len(history) - 1.
C1_IndexWithinLog ==
    /\ history # <<>>
    /\ historyIndex \in 0 .. Len(history) - 1

\* a generation result was applied and then undone, with a redo state left
C1_Witness ==
    /\ Len(history) = 3
    /\ historyIndex = 1
    /\ HasContent(At(history, 2), "g")

\* C2: in every reachable state, also after a generation result requested
\* in an earlier state was applied, files equals history[historyIndex].
C2_VisibleIsLogEntry ==
    /\ historyIndex \in 0 .. Len(history) - 1
    /\ files = At(history, historyIndex)

\* the result of a request made while file "1" was active is visible after
\* file "2" was selected and edited
C2_Witness ==
    /\ activeFileId = "2"
    /\ requests = EmptyBag
    /\ files = UpdatedFiles(INITIAL_FILES, "1", "g")
    /\ history = <<INITIAL_FILES, files>>

\* C3: in every reachable state activeFileId is the id of a file of the
\* visible snapshot files.
C3_ActiveFileIsPresent == activeFileId \in Ids(files)

\* C4: the visible snapshot and every snapshot of the history log hold at
\* least one file.
C4_NeverZeroFiles == \A fs \in Snapshots : fs # <<>>

\* C5: no snapshot, visible or in the history log, holds two files with the
\* same id.
C5_UniqueIds ==
    \A fs \in Snapshots :
        \A i, j \in DOMAIN fs : fs[i].id = fs[j].id => i = j

\* C6: a push of snapshot S made from a state with log L and cursor i yields
\* the log L[0..i] followed by S, of length i + 2, sets the cursor to i + 1
\* and makes S the visible snapshot.
C6_PushAtCursor ==
    [][ PushStep =>
          /\ history' = Append(SubSeq(history, 1, historyIndex + 1), files')
          /\ Len(history') = historyIndex + 2
          /\ historyIndex' = historyIndex + 1 ]_vars

\* C7: a push made while the cursor is below the tail (a snapshot A was
\* pushed and undone) leaves none of the log after the cursor: the log is
\* what was at and before the cursor, followed by the pushed snapshot B, the
\* cursor is at the tail so that redo does nothing, and undo and redo
\* leave the log as it is and show one of its entries.
C7_BranchDiscarded ==
    [][ /\ (PushStep /\ historyIndex < Len(history) - 1) =>
              /\ Len(history') = historyIndex + 2
              /\ SubSeq(history', 1, historyIndex + 1)
                    = SubSeq(history, 1, historyIndex + 1)
              /\ At(history', historyIndex + 1) = files'
              /\ historyIndex' = Len(history') - 1
        /\ (Undo \/ Redo) =>
              /\ history' = history
              /\ files' \in Range(history') ]_vars

\* C8: undo at historyIndex = 0 and redo at historyIndex = Len(history) - 1
\* leave files, history and historyIndex unchanged.
C8_NavigationAtTheEnds ==
    [][ /\ (Undo /\ historyIndex = 0) =>
              /\ historyIndex' = historyIndex
              /\ history' = history
              /\ files' = files
        /\ (Redo /\ historyIndex = Len(history) - 1) =>
              /\ historyIndex' = historyIndex
              /\ history' = history
              /\ files' = files ]_vars

\* the cursor is back at the first entry of a log that has more: a further
\* undo finds historyIndex = 0
C8_Witness ==
    /\ historyIndex = 0
    /\ Len(history) = 3
    /\ files = INITIAL_FILES

\* C9: undo with historyIndex > 0 sets historyIndex to historyIndex - 1 and
\* files to history[historyIndex - 1]; redo with
\* historyIndex < Len(history) - 1 sets historyIndex to historyIndex + 1 and
\* files to history[historyIndex + 1].
C9_NavigationByOne ==
    [][ /\ (Undo /\ historyIndex > 0) =>
              /\ historyIndex' = historyIndex - 1
              /\ files' = At(history, historyIndex - 1)
        /\ (Redo /\ historyIndex < Len(history) - 1) =>
              /\ historyIndex' = historyIndex + 1
              /\ files' = At(history, historyIndex + 1) ]_vars

\* the cursor is in the middle of the log, on an entry that differs from
\* its neighbours
C9_Witness ==
    /\ Len(history) = 3
    /\ historyIndex = 1
    /\ files = At(history, 1)
    /\ files # At(history, 0)
    /\ files # At(history, 2)

\* after differs from before in the content of the files whose id is aid,
\* and in nothing else
OnlyContentOf(before, aid, newContent, after) ==
    /\ Len(after) = Len(before)
    /\ \A i \in DOMAIN before :
          /\ after[i].id = before[i].id
          /\ after[i].name = before[i].name
          /\ after[i].language = before[i].language
          /\ after[i].content =
                IF before[i].id = aid THEN newContent ELSE before[i].content
    /\ (aid \notin Ids(before) => after = before)

\* C10: a call of updateActiveFileContent(newContent), from the editor or
\* with a generation result, makes the visible snapshot differ from the
\* previous one only in the content of the file whose id is activeFileId:
\* ids, names, languages, the other files, their number and order are as
\* before, and nothing changes when no file has that id.
C10_OnlyActiveContentChanges ==
    [][ /\ \A c \in TypedCode :
              SetCode(c) => OnlyContentOf(files, activeFileId, c, files')
        /\ \A req \in BagToSet(requests), r \in GeneratedResults :
              (Truthy(r) /\ GenerationReturns(req, r)) =>
                  OnlyContentOf(files, activeFileId, r.code, files')
      ]_vars

-----------------------------------------------------------------------------
(* C11..C20 *)

\* C11: handleFileDelete on a visible snapshot of exactly one file leaves
\* files, history, historyIndex and activeFileId unchanged: no history entry
\* is created.
C11_LastFileIsKept ==
    [][ \A id \in Ids(files) :
            (Len(files) = 1 /\ HandleFileDelete(id)) =>
                UNCHANGED <<files, history, historyIndex, activeFileId>>
      ]_vars

\* one file is left after a delete: the next delete finds files.length = 1
C11_Witness ==
    /\ Len(files) = 1
    /\ Len(history) = 2
    /\ historyIndex = 1
    /\ At(history, 0) = INITIAL_FILES

\* C12: when handleFileDelete removes the active file and another file
\* remains, activeFileId becomes the id of the first file of the resulting
\* snapshot; deleting another file leaves activeFileId unchanged; and right
\* after any delete activeFileId is the id of a file of the visible snapshot.
C12_DeleteRepoints ==
    [][ \A id \in Ids(files) :
            (Len(files) > 1 /\ HandleFileDelete(id)) =>
                /\ (activeFileId = id /\ files' # <<>>) =>
                        activeFileId' = files'[1].id
                /\ activeFileId # id => activeFileId' = activeFileId
                /\ activeFileId' \in Ids(files')
      ]_vars

\* C13: a handleAction call whose generateGodotCode throws leaves files,
\* history and historyIndex as they were, at its start and at its end;
\* its end sets the explanation to an error message and changes neither
\* activeFileId nor the generated image.
C13_FailedGenerationKeepsProject ==
    [][ /\ \A p \in TypedPrompts :
              OnGenerateClick(p) => UNCHANGED <<files, history, historyIndex>>
        /\ \A req \in BagToSet(requests) :
              GenerationThrows(req) =>
                  /\ UNCHANGED <<files, history, historyIndex>>
                  /\ UNCHANGED <<activeFileId, generatedImage>>
                  /\ explanation' = ErrorText
      ]_vars

\* a generation has failed after an edit made while it was in flight
C13_Witness ==
    /\ explanation = ErrorText
    /\ requests = EmptyBag
    /\ ~loading
    /\ history = <<INITIAL_FILES, UpdatedFiles(INITIAL_FILES, "1", "x")>>
    /\ historyIndex = 1

\* C14: a generateGodotCode result without a string code (an empty response
\* text, parsed as {}; or null) is treated as a failed generation: no push
\* happens, files, history and historyIndex stay as they were and every
\* content of the visible snapshot is still a string.
C14_MalformedResultIsIgnored ==
    [][ \A req \in BagToSet(requests), r \in GeneratedResults :
            (r.code = Undefined /\ GenerationReturns(req, r)) =>
                /\ UNCHANGED <<files, history, historyIndex>>
                /\ \A i \in DOMAIN files' : files'[i].content # Undefined
      ]_vars

\* C15: at most one handleAction call of the Tools panel is in flight.
C15_OneRequestOutstanding == BagCardinality(requests) <= 1

\* C16: a generateGodotCode result that arrives after another file was
\* selected (the files are those of the request) replaces the content of
\* the file whose id is activeFileId when the result arrives, and of no
\* other file.
C16_ResultGoesToActiveFile ==
    [][ \A req \in BagToSet(requests), r \in GeneratedResults :
            ( /\ Truthy(r)
              /\ req.activeFileId # activeFileId
              /\ req.files = files
              /\ GenerationReturns(req, r) ) =>
                /\ Len(files') = Len(files)
                /\ \A i \in DOMAIN files :
                      files'[i].content =
                          IF files[i].id = activeFileId THEN r.code
                          ELSE files[i].content
      ]_vars

\* a step of handleChatSubmit: its start, its reply or its error
ChatStep ==
    \/ \E t \in TypedChat : HandleChatSubmit(t)
    \/ \E t \in ChatReplies : ChatReturns(t)
    \/ ChatThrows

\* C17: submitting a chat message and receiving its reply or its error
\* leave files, history, historyIndex and activeFileId unchanged; the chat
\* transcript is only appended to.
C17_ChatKeepsProject ==
    [][ ChatStep =>
          /\ UNCHANGED <<files, history, historyIndex, activeFileId>>
          /\ Len(chatHistory') >= Len(chatHistory)
          /\ SubSeq(chatHistory', 1, Len(chatHistory)) = chatHistory
      ]_vars

\* a reply has arrived in a project that was edited
C17_Witness ==
    /\ Len(chatHistory) = 3
    /\ chatHistory[2] = [role |-> "user", content |-> "hi"]
    /\ chatHistory[3] = [role |-> "model", content |-> "hello"]
    /\ chatRequests = 0
    /\ files = UpdatedFiles(INITIAL_FILES, "1", "x")

\* C18: a handleAction call in image-asset mode or in DEBUGGER mode leaves
\* files, history and historyIndex unchanged at its start and at its end,
\* whether it succeeds or fails: onCodeUpdate is never called, only the
\* generated image and the explanation change.
C18_ImageAndDebuggerKeepProject ==
    [][ /\ ( /\ Kind(mode, assetOutputMode) # "code"
             /\ (OnCardClick \/ \E p \in TypedPrompts : OnGenerateClick(p)) )
           => UNCHANGED <<files, history, historyIndex, activeFileId>>
        /\ \A req \in BagToSet(requests) :
              ( /\ req.kind # "code"
                /\ \/ \E u \in ImageUrls : ImageReturns(req, u)
                   \/ \E a \in AnalysisResults : AnalysisReturns(req, a)
                   \/ GenerationThrows(req) )
              => UNCHANGED <<files, history, historyIndex, activeFileId>>
      ]_vars

\* an image was generated in a project that a code generation had changed
C18_Witness ==
    /\ generatedImage \in ImageUrls
    /\ requests = EmptyBag
    /\ Len(history) = 2
    /\ HasContent(files, "g")

\* C19: a file create, an accepted file delete and an editor content change
\* each push exactly once: historyIndex grows by one and the log is what was
\* at and before the cursor followed by the one new snapshot.
C19_OnePushPerEdit ==
    [][ (SetCodeStep \/ CreateStep \/ DeleteStep) =>
          /\ historyIndex' = historyIndex + 1
          /\ Len(history') = historyIndex + 2
          /\ SubSeq(history', 1, historyIndex + 1)
                = SubSeq(history, 1, historyIndex + 1)
          /\ At(history', historyIndex') = files'
      ]_vars

\* a delete and an edit have each added one entry to the log
C19_Witness ==
    /\ Len(history) = 3
    /\ historyIndex = 2
    /\ Len(At(history, 1)) = 1
    /\ HasContent(files, "x")
    /\ requests = EmptyBag

\* C20: submitting a name that is empty after trimming leaves files,
\* history, historyIndex and activeFileId unchanged, and after every step no
\* snapshot holds a file whose name is empty or begins or ends with a space.
C20_BlankNameCreatesNothing ==
    [][ /\ \A n \in TypedNames :
              (Trim(n) = "" /\ HandleCreateSubmit(n)) =>
                  UNCHANGED <<files, history, historyIndex, activeFileId>>
        /\ \A fs \in Range(history') \cup {files'} :
              \A i \in DOMAIN fs :
                  fs[i].name # "" /\ Trim(fs[i].name) = fs[i].name
      ]_vars

\* a file was created from a name typed with spaces around it
C20_Witness ==
    \E i \in DOMAIN files :
        /\ files[i].name = "save.json"
        /\ files[i].language = "json"
        /\ activeFileId = files[i].id

-----------------------------------------------------------------------------
(* C21..C30 *)

\* C21: handleFileCreate(name) appends one file at the end of the snapshot
\* and leaves the files before it as they were; the new file has content
\* "{}" and language "json" when name ends with ".json", else content
\* "extends Node\n" and language "gdscript"; and the new file is the active
\* file, the one App resolves from activeFileId.
C21_CreateAppendsActiveFile ==
    [][ \A n \in TypedNames :
            (Trim(n) # "" /\ HandleCreateSubmit(n)) =>
                /\ Len(files') = Len(files) + 1
                /\ SubSeq(files', 1, Len(files)) = files
                /\ files'[Len(files')].name = Trim(n)
                /\ files'[Len(files')].content =
                      IF EndsWith(Trim(n), ".json") THEN "{}"
                      ELSE "extends Node\n"
                /\ files'[Len(files')].language =
                      IF EndsWith(Trim(n), ".json") THEN "json"
                      ELSE "gdscript"
                /\ activeFileId' = files'[Len(files')].id
                /\ ActiveFile(files', activeFileId') = files'[Len(files')]
      ]_vars

\* C22: applying a successful generateGodotCode result is a push against
\* the state in which it arrives: with log L and cursor i the log becomes
\* L[0..i] followed by one new snapshot, which differs from the snapshot
\* visible until then only in the content of one file, so that what was
\* committed while the request was in flight is still in the log.
C22_ResultIsPushedOnCurrentState ==
    [][ \A req \in BagToSet(requests), r \in GeneratedResults :
            (Truthy(r) /\ GenerationReturns(req, r)) =>
                /\ history' =
                      Append(SubSeq(history, 1, historyIndex + 1), files')
                /\ historyIndex' = historyIndex + 1
                /\ \E aid \in Ids(files) \cup {activeFileId} :
                      OnlyContentOf(files, aid, r.code, files')
      ]_vars

\* C23: a content change whose resulting snapshot equals the visible one
\* (the same text entered again, or activeFileId naming no file) still
\* appends an entry to the log and advances historyIndex by one: in every
\* reachable state such a change can be made and has this effect.
C23_NoDeduplication ==
    \A c \in TypedCode :
        (Mounted /\ UpdatedFiles(files, activeFileId, c) = files) =>
            ENABLED ( /\ SetCode(c)
                      /\ history' =
                            Append(SubSeq(history, 1, historyIndex + 1), files)
                      /\ historyIndex' = historyIndex + 1
                      /\ files' = files )

\* the log holds the same snapshot twice in a row, the second one visible
C23_Witness ==
    /\ historyIndex = 2
    /\ Len(history) = 3
    /\ At(history, 2) = At(history, 1)
    /\ At(history, 1) # At(history, 0)
    /\ activeFileId \in Ids(files)

\* C24: the first entry of the history log is the seed snapshot
\* INITIAL_FILES in every reachable state.
C24_SeedStaysFirst ==
    /\ history # <<>>
    /\ At(history, 0) = INITIAL_FILES

\* a pushed generation result was undone: the seed is visible again and
\* the result is still in the log
C24_Witness ==
    /\ historyIndex = 0
    /\ files = INITIAL_FILES
    /\ Len(history) = 2
    /\ HasContent(At(history, 1), "g")

\* C25: in every reachable state the file App resolves for the editor,
\* activeFile, is defined and is a file of the visible snapshot, also when
\* activeFileId names no file of it.
C25_ActiveFileIsDefined ==
    /\ files # <<>>
    /\ ActiveFile(files, activeFileId) \in Range(files)

\* C26: in every reachable state the file App displays as activeFile is the
\* file Tools resolves as currentFile, and a content change entered in the
\* editor changes the content of the displayed file.
C26_EditorTargetsDisplayedFile ==
    [][ /\ activeFileId \in Ids(files)
        /\ CurrentFile(files, activeFileId) = ActiveFile(files, activeFileId)
        /\ \A c \in TypedCode :
              SetCode(c) => ActiveFile(files', activeFileId').content = c
      ]_vars

\* C27: undo and redo leave the history log, activeFileId, the chat
\* transcript, the explanation and the generated image unchanged; selecting
\* a file leaves files, history, historyIndex and the explanation unchanged.
C27_NavigationFrame ==
    [][ /\ (Undo \/ Redo) =>
              UNCHANGED <<history, activeFileId, chatHistory, explanation,
                          generatedImage>>
        /\ (\E id \in Ids(files) : OnFileSelect(id)) =>
              UNCHANGED <<files, history, historyIndex, explanation,
                          chatHistory>>
      ]_vars

\* an explanation is shown, another file than the first is selected and the
\* cursor is below the tail of the log
C27_Witness ==
    /\ explanation = "e"
    /\ activeFileId = "2"
    /\ Len(history) = 3
    /\ historyIndex = 1

\* C28: with historyIndex > 0 an undo leaves the log unchanged and the
\* state it left is the entry after the new cursor, so that the redo that
\* follows restores files, history and historyIndex; and every push leaves
\* the files visible before it in the entry below the new cursor, so that
\* the undo that follows restores them.
C28_RoundTrips ==
    [][ /\ (historyIndex > 0 /\ Undo) =>
              /\ history' = history
              /\ historyIndex' + 1 = historyIndex
              /\ At(history', historyIndex' + 1) = files
        /\ PushStep =>
              /\ historyIndex' > 0
              /\ At(history', historyIndex' - 1) = files
      ]_vars

\* C29: provided every call returns or throws, whenever loading is set it
\* is cleared later, and whenever chatLoading is set it is cleared later.
C29_LoadingIsCleared ==
    /\ loading ~> ~loading
    /\ chatLoading ~> ~chatLoading

\* a generation result was applied, the chat call is in flight with
\* chatLoading set, and a further call of handleAction is in flight with
\* loading set
C29_Witness ==
    /\ Len(history) = 2
    /\ loading
    /\ \E req \in BagToSet(requests) : req.live
    /\ chatLoading
    /\ chatRequests = 1

\* C30: a submit while chatLoading is set or with a blank input changes
\* nothing of the chat; an accepted submit appends exactly one user message
\* and its completion exactly one model message; no step removes or changes
\* a message; at most one chat call is in flight; and when none is, the
\* transcript starts with the greeting and alternates model, user, model.
C30_ChatIsSequential ==
    [][ /\ \A t \in TypedChat :
              HandleChatSubmit(t) =>
                  IF chatLoading \/ Trim(t) = ""
                  THEN UNCHANGED chatVars
                  ELSE /\ chatHistory' =
                            Append(chatHistory,
                                   [role |-> "user", content |-> t])
                       /\ chatRequests' = 1
        /\ ChatCompletion =>
              /\ Len(chatHistory') = Len(chatHistory) + 1
              /\ chatHistory'[Len(chatHistory')].role = "model"
              /\ chatRequests' = 0
        /\ SubSeq(chatHistory', 1, Len(chatHistory)) = chatHistory
        /\ chatRequests <= 1
        /\ chatRequests = 0 =>
              /\ Len(chatHistory) % 2 = 1
              /\ chatHistory[1].content = Greeting
              /\ \A i \in DOMAIN chatHistory :
                    chatHistory[i].role =
                        IF i % 2 = 1 THEN "model" ELSE "user"
      ]_vars

\* the call threw, the error text is the reply and no call is in flight
C30_Witness ==
    /\ chatRequests = 0
    /\ ~chatLoading
    /\ Len(chatHistory) = 3
    /\ chatHistory[3].content = "Error communicating with Gemini."

====
